---- MODULE Spec2Model ----
(***************************************************************************)
(* Rotation.py: rigid-body tilted supercell generator.                     *)
(*                                                                         *)
(* The program computes in binary floating point (numpy float64).  The     *)
(* model keeps that arithmetic: a number is an integer count of units of   *)
(* 2^-FracBits, every operation computes the exact result and rounds it    *)
(* to Prec significant bits, ties to even, as IEEE 754 does.  Prec is the  *)
(* width of the significand, scaled down from 53 so that the products fit  *)
(* 32-bit integers; NaN is the result of np.sqrt on a negative number, it  *)
(* propagates through every operation, and every comparison with it is     *)
(* false.                                                                  *)
(***************************************************************************)
EXTENDS Integers, Sequences, FiniteSets

\* ------------------------------------------------------------------------
\* Bounds of the model
\* ------------------------------------------------------------------------
\* significand width of the modelled floating-point format
Prec == 6
\* largest replication count drawn for N
MaxN == 10
\* largest whole-number spacing drawn for h_spacing
MaxSpacing == 15

\* ------------------------------------------------------------------------
\* Floating-point arithmetic (numpy float64, scaled down)
\* ------------------------------------------------------------------------
FracBits == 9
Unit == 2^FracBits

\* np.sqrt of a negative number: nan (line 63)
NaN == -2147483647

IsNaN(x) == x = NaN

Abs(n) == IF n < 0 THEN -n ELSE n

\* n/d rounded to the nearest integer, ties to even (d > 0)
RoundHalfEven(n, d) ==
    LET a == Abs(n)
        q == a \div d
        r == a % d
        up == (r > d - r) \/ (r = d - r /\ q % 2 = 1)
        m == IF up THEN q + 1 ELSE q
    IN  IF n < 0 THEN -m ELSE m

\* n/d units rounded to Prec significant bits, ties to even
RN(n, d) ==
    LET q == Abs(n) \div d
    IN  IF q < 2^Prec
        THEN RoundHalfEven(n, d)
        ELSE LET s == CHOOSE k \in 1..30 :
                          /\ q \div 2^k < 2^Prec
                          /\ q \div 2^(k - 1) >= 2^Prec
             IN  RoundHalfEven(n, d * 2^s) * 2^s

\* number of trailing zero bits of k # 0, and k without them
Tz(k) == CHOOSE j \in 0..30 : k % 2^j = 0 /\ k % 2^(j + 1) # 0
Mant(k) == k \div 2^Tz(k)

\* m * 2^e units, rounded
Scaled(m, e) == IF e >= 0 THEN RN(m * 2^e, 1) ELSE RN(m, 2^(-e))

FromInt(n) == RN(n * Unit, 1)
FromRatio(n, d) == RN(n * Unit, d)

FAdd(x, y) == IF IsNaN(x) \/ IsNaN(y) THEN NaN ELSE RN(x + y, 1)
FSub(x, y) == IF IsNaN(x) \/ IsNaN(y) THEN NaN ELSE RN(x - y, 1)
FNeg(x) == IF IsNaN(x) THEN NaN ELSE -x

FMul(x, y) ==
    IF IsNaN(x) \/ IsNaN(y) THEN NaN
    ELSE IF x = 0 \/ y = 0 THEN 0
    ELSE Scaled(Mant(x) * Mant(y), Tz(x) + Tz(y) - FracBits)

\* x ** 2 and x ** 4: pow, correctly rounded
FPow2(x) ==
    IF IsNaN(x) THEN NaN
    ELSE IF x = 0 THEN 0
    ELSE Scaled(Mant(x) * Mant(x), 2 * Tz(x) - FracBits)
FPow4(x) ==
    IF IsNaN(x) THEN NaN
    ELSE IF x = 0 THEN 0
    ELSE Scaled(Mant(x) * Mant(x) * Mant(x) * Mant(x), 4 * Tz(x) - 3 * FracBits)

\* x / y; y = 0 does not occur for the positive lengths of this program
FDiv(x, y) ==
    IF IsNaN(x) \/ IsNaN(y) \/ y = 0 THEN NaN
    ELSE IF x = 0 THEN 0
    ELSE LET e == Tz(x) - Tz(y) + FracBits
             sy == IF y < 0 THEN -1 ELSE 1
         IN  IF e >= 0
             THEN RN(sy * Mant(x) * 2^e, Abs(Mant(y)))
             ELSE RN(sy * Mant(x), Abs(Mant(y)) * 2^(-e))

\* the sum of a sequence divided by an integer count (np.mean)
FDivInt(x, n) == IF IsNaN(x) THEN NaN ELSE RN(x, n)
FMulInt(n, x) == IF IsNaN(x) THEN NaN ELSE RN(n * x, 1)

RECURSIVE IsqrtIn(_, _, _)
IsqrtIn(n, lo, hi) ==
    IF hi - lo <= 1 THEN lo
    ELSE LET mid == (lo + hi) \div 2
         IN  IF mid * mid <= n THEN IsqrtIn(n, mid, hi) ELSE IsqrtIn(n, lo, mid)
Isqrt(n) == IsqrtIn(n, 0, 32768)

\* np.sqrt, correctly rounded; nan for a negative argument
FSqrt(x) ==
    IF IsNaN(x) \/ x < 0 THEN NaN
    ELSE IF x = 0 THEN 0
    ELSE LET e0 == Tz(x) + FracBits
             odd == e0 % 2 = 1
             m == IF odd THEN 2 * Mant(x) ELSE Mant(x)
             e == IF odd THEN e0 - 1 ELSE e0
             M == m * 2^20
             s == Isqrt(M)
             n == 2 * s + (IF s * s = M THEN 0 ELSE 1)
         IN  Scaled(n, (e \div 2) - 11)

\* The transcendental functions are evaluated in fixed point with IBits
\* fractional bits, well below the last place of the format, and rounded.
IBits == 14
IOne == 2^IBits
\* pi/4 in that fixed point
PiOver4I == 12868
\* tan(pi/8) in that fixed point
TanPiOver8I == 6786

ToI(x) == x * 2^(IBits - FracBits)
FromI(r) == Scaled(r, FracBits - IBits)

\* w - w^3/3 + w^5/5 - ... for |w| <= tan(pi/8); pw is w^k, signed
RECURSIVE AtanSeries(_, _, _, _)
AtanSeries(pw, w2, k, acc) ==
    IF k > 19 \/ pw = 0 THEN acc
    ELSE AtanSeries(-RoundHalfEven(pw * w2, IOne), w2, k + 2,
                    acc + RoundHalfEven(pw, k))
AtanI(w) == AtanSeries(w, RoundHalfEven(w * w, IOne), 1, 0)

\* np.arctan, for the arguments 0 <= t < 1 + sqrt(2) this program passes:
\* arctan(t) = pi/4 + arctan((t - 1)/(t + 1)) above tan(pi/8)
FAtan(x) ==
    IF IsNaN(x) THEN NaN
    ELSE IF ToI(x) <= TanPiOver8I
    THEN FromI(AtanI(ToI(x)))
    ELSE FromI(PiOver4I + AtanI(RoundHalfEven((x - Unit) * IOne, x + Unit)))

\* the Taylor series of sin and cos; term is the term of degree k, signed
RECURSIVE TrigSeries(_, _, _, _)
TrigSeries(term, x2, k, acc) ==
    IF k > 13 \/ term = 0 THEN acc
    ELSE TrigSeries(-RoundHalfEven(RoundHalfEven(term * x2, IOne), (k + 1) * (k + 2)),
                    x2, k + 2, acc + term)

\* np.sin and np.cos, for the angles |theta| <= 1 of this program
FSin(x) ==
    IF IsNaN(x) THEN NaN
    ELSE FromI(TrigSeries(ToI(x), RoundHalfEven(ToI(x) * ToI(x), IOne), 1, 0))
FCos(x) ==
    IF IsNaN(x) THEN NaN
    ELSE FromI(TrigSeries(IOne, RoundHalfEven(ToI(x) * ToI(x), IOne), 0, 0))

\* comparisons: every comparison with nan is false
FLt(x, y) == ~IsNaN(x) /\ ~IsNaN(y) /\ x < y
FLe(x, y) == ~IsNaN(x) /\ ~IsNaN(y) /\ x <= y

\* np.mod(x, 1): the remainder of floored division, rounded
FMod1(x) == IF IsNaN(x) THEN NaN ELSE RN(x % Unit, 1)

\* ------------------------------------------------------------------------
\* Parameters
\* ------------------------------------------------------------------------
N_SUPERCELL == 10
H_SPACING == FromInt(15)
A_PARAM == FromRatio(318, 100)
\* defaults of get_rectangular_mos2
Thickness == FromRatio(312, 100)
Vacuum == FromInt(20)

\* the arguments create_tilted_cell is exercised with
LatticeConstants == {A_PARAM, FromRatio(329, 100)}
Replications == 1..MaxN
SheetLengths == {FMulInt(n, a) : n \in Replications, a \in LatticeConstants}
Spacings == {FromInt(k) : k \in 1..MaxSpacing} \cup {FDivInt(l, 2) : l \in SheetLengths}

\* ------------------------------------------------------------------------
\* Structures (pymatgen Structure / Lattice as the program uses them)
\* ------------------------------------------------------------------------
\* Lattice.from_parameters(a, b, c, 90, 90, 90)
LatticeFromParameters(a, b, c, alpha, beta, gamma) ==
    [a |-> a, b |-> b, c |-> c, alpha |-> alpha, beta |-> beta, gamma |-> gamma]

\* Structure(lattice, species, coords): fractional coordinates, kept as given
Structure(lattice, species, coords) ==
    [lattice |-> lattice, species |-> species, frac_coords |-> coords]

\* struct.cart_coords for an orthogonal lattice: a scale per axis
CartCoords(st) ==
    [i \in 1..Len(st.frac_coords) |->
        << FMul(st.frac_coords[i][1], st.lattice.a),
           FMul(st.frac_coords[i][2], st.lattice.b),
           FMul(st.frac_coords[i][3], st.lattice.c) >>]

\* lattice.get_fractional_coords
FracCoords(cart, lattice) ==
    [i \in 1..Len(cart) |->
        << FDiv(cart[i][1], lattice.a),
           FDiv(cart[i][2], lattice.b),
           FDiv(cart[i][3], lattice.c) >>]

\* site.to_unit_cell: each fractional coordinate modulo 1
ToUnitCell(frac) ==
    [i \in 1..Len(frac) |-> << FMod1(frac[i][1]), FMod1(frac[i][2]), FMod1(frac[i][3]) >>]

\* Structure(lattice, species, coords, coords_are_cartesian=True): the
\* constructor's to_unit_cell defaults to False, the coordinates are
\* converted and not wrapped
StructureFromCartesian(lattice, species, cart) ==
    Structure(lattice, species, FracCoords(cart, lattice))

\* get_rectangular_mos2(a_lattice, thickness=3.12, vacuum=20.0)
get_rectangular_mos2(a_lattice) ==
    LET b_lattice == FMul(a_lattice, FSqrt(FromInt(3)))
        lattice == LatticeFromParameters(a_lattice, b_lattice, Vacuum, 90, 90, 90)
        z_delta == FDivInt(FDiv(Thickness, Vacuum), 2)
        half == FromRatio(1, 2)
        z_mo == half
        z_s_top == FAdd(half, z_delta)
        z_s_bot == FSub(half, z_delta)
        species == << "Mo", "Mo", "S", "S", "S", "S" >>
        coords == << << 0, 0, z_mo >>,
                     << half, half, z_mo >>,
                     << 0, 0, z_s_bot >>,
                     << 0, 0, z_s_top >>,
                     << half, half, z_s_bot >>,
                     << half, half, z_s_top >> >>
    IN  Structure(lattice, species, coords)

\* make_supercell with the sheet left unreplicated
make_supercell_once(st, n) == st

\* struct.make_supercell([n, 1, 1]): every site is repeated n times, shifted
\* by k lattice vectors along a, the copies of one site adjacent; the sites
\* are then folded into the unit cell (to_unit_cell=True)
make_supercell(st, n) ==
    LET cart == CartCoords(st)
        new_lattice == [st.lattice EXCEPT !.a = FMulInt(n, st.lattice.a)]
        count == n * Len(st.species)
        site(i) == ((i - 1) \div n) + 1
        shift(i) == (i - 1) % n
        new_cart == [i \in 1..count |->
                        << FAdd(cart[site(i)][1], FMulInt(shift(i), st.lattice.a)),
                           cart[site(i)][2],
                           cart[site(i)][3] >>]
    IN  Structure(new_lattice,
                  [i \in 1..count |-> st.species[site(i)]],
                  ToUnitCell(FracCoords(new_cart, new_lattice)))

\* np.mean(cart_coords[:, 2]): np.add.reduce sums pairwise.  Fewer than 8
\* numbers are added in order; otherwise 8 partial sums r[0..7] run over the
\* blocks of 8, are combined as a tree, and the n % 8 numbers left over are
\* added in order.
RECURSIVE SumFrom(_, _, _, _)
SumFrom(z, acc, i, last) ==
    IF i > last THEN acc ELSE SumFrom(z, FAdd(acc, z[i]), i + 1, last)
RECURSIVE LaneSum(_, _, _)
LaneSum(z, k, blocks) ==
    IF blocks = 1 THEN z[k]
    ELSE FAdd(LaneSum(z, k, blocks - 1), z[8 * (blocks - 1) + k])
PairwiseSum(z) ==
    LET n == Len(z)
        blocks == n \div 8
        r(k) == LaneSum(z, k, blocks)
        tree == FAdd(FAdd(FAdd(r(1), r(2)), FAdd(r(3), r(4))),
                     FAdd(FAdd(r(5), r(6)), FAdd(r(7), r(8))))
    IN  IF n < 8
        THEN SumFrom(z, 0, 1, n)
        ELSE SumFrom(z, tree, 8 * blocks + 1, n)
MeanZ(cart) ==
    FDivInt(PairwiseSum([i \in 1..Len(cart) |-> cart[i][3]]), Len(cart))

\* cart_coords[:, 2] -= z_mean
CenterZ(cart) ==
    LET z_mean == MeanZ(cart)
    IN  [i \in 1..Len(cart) |-> << cart[i][1], cart[i][2], FSub(cart[i][3], z_mean) >>]

\* solve_box_geometry(length_sheet, h_spacing)
solve_box_geometry(length_sheet, h_spacing) ==
    IF FLt(length_sheet, FMulInt(2, h_spacing))
    THEN [raised |-> TRUE, disc |-> 0, L_planar |-> 0, L_z |-> 0, theta |-> 0]
    ELSE LET disc == FSub(FPow4(length_sheet),
                          FMulInt(4, FPow2(FMul(length_sheet, h_spacing))))
             term == FSqrt(disc)
             L_planar == FSqrt(FDivInt(FAdd(FPow2(length_sheet), term), 2))
             L_z == FDiv(FMul(length_sheet, h_spacing), L_planar)
             theta == FAtan(FDiv(L_z, L_planar))
         IN  [raised |-> FALSE, disc |-> disc,
              L_planar |-> L_planar, L_z |-> L_z, theta |-> theta]

\* np.dot(cart_coords, rotation_matrix.T) with rotation_matrix
\* [[c, 0, -s], [0, 1, 0], [s, 0, c]]
Dot3(v, row) ==
    FAdd(FAdd(FMul(v[1], row[1]), FMul(v[2], row[2])), FMul(v[3], row[3]))
RotateAll(cart, theta) ==
    LET c == FCos(theta)
        s == FSin(theta)
        one == FromInt(1)
    IN  [i \in 1..Len(cart) |->
            << Dot3(cart[i], << c, 0, FNeg(s) >>),
               Dot3(cart[i], << 0, one, 0 >>),
               Dot3(cart[i], << s, 0, c >>) >>]

\* NewLattice with the planar and the perpendicular length exchanged
NewLatticeSwapped(L_planar, old_b, L_z) == [a |-> L_z, b |-> old_b, c |-> L_planar,
                                            alpha |-> 90, beta |-> 90, gamma |-> 90]

\* steps 5 and 6 of create_tilted_cell
NewLattice(L_planar, old_b, L_z) == LatticeFromParameters(L_planar, old_b, L_z, 90, 90, 90)
FinalStruct(lattice, species, rotated) == StructureFromCartesian(lattice, species, rotated)

\* ------------------------------------------------------------------------
\* State
\* ------------------------------------------------------------------------
VARIABLES
    pc,              \* position in the script
    N,               \* create_tilted_cell's arguments
    h_spacing,
    a_param,
    struct,          \* the structure being built (lines 72, 78)
    cart_coords,     \* line 81, centred at line 86
    geom,            \* what solve_box_geometry returned (line 90)
    rotated_coords,  \* line 108
    tilted_struct,   \* line 134, the returned pair
    theta_rad,
    written,         \* the structure written to POSCAR_tilted_ortho.vasp
    downloaded,      \* files.download was called
    printed,         \* what the script printed last
    solves           \* how many times the solver was called

vars == << pc, N, h_spacing, a_param, struct, cart_coords, geom, rotated_coords,
           tilted_struct, theta_rad, written, downloaded, printed, solves >>

None == [none |-> TRUE]

Init ==
    /\ pc = "start"
    /\ N \in Replications
    /\ h_spacing \in Spacings
    /\ a_param \in LatticeConstants
    /\ struct = None
    /\ cart_coords = << >>
    /\ geom = None
    /\ rotated_coords = << >>
    /\ tilted_struct = None
    /\ theta_rad = None
    /\ written = None
    /\ downloaded = FALSE
    /\ printed = "nothing"
    /\ solves = 0

\* line 72
GetRectangular ==
    /\ pc = "start"
    /\ struct' = get_rectangular_mos2(a_param)
    /\ pc' = "supercell"
    /\ UNCHANGED << N, h_spacing, a_param, cart_coords, geom, rotated_coords,
                    tilted_struct, theta_rad, written, downloaded, printed, solves >>

\* line 78
MakeSupercell ==
    /\ pc = "supercell"
    /\ struct' = make_supercell(struct, N)
    /\ pc' = "center"
    /\ UNCHANGED << N, h_spacing, a_param, cart_coords, geom, rotated_coords,
                    tilted_struct, theta_rad, written, downloaded, printed, solves >>

\* lines 81-86
CenterStrip ==
    /\ pc = "center"
    /\ cart_coords' = CenterZ(CartCoords(struct))
    /\ pc' = "solve"
    /\ UNCHANGED << N, h_spacing, a_param, struct, geom, rotated_coords,
                    tilted_struct, theta_rad, written, downloaded, printed, solves >>

\* SolveGeometry with the ValueError swallowed: the builder carries on
SolveGeometrySwallow ==
    /\ pc = "solve"
    /\ geom' = solve_box_geometry(struct.lattice.a, h_spacing)
    /\ solves' = solves + 1
    /\ pc' = "rotate"
    /\ UNCHANGED << N, h_spacing, a_param, struct, cart_coords, rotated_coords,
                    tilted_struct, theta_rad, written, downloaded, printed >>

\* lines 89-90: the ValueError leaves create_tilted_cell and the try block
SolveGeometry ==
    /\ pc = "solve"
    /\ geom' = solve_box_geometry(struct.lattice.a, h_spacing)
    /\ solves' = solves + 1
    /\ pc' = IF geom'.raised THEN "except" ELSE "rotate"
    /\ UNCHANGED << N, h_spacing, a_param, struct, cart_coords, rotated_coords,
                    tilted_struct, theta_rad, written, downloaded, printed >>

\* lines 94-108
RigidRotation ==
    /\ pc = "rotate"
    /\ rotated_coords' = RotateAll(cart_coords, geom.theta)
    /\ pc' = "lattice"
    /\ UNCHANGED << N, h_spacing, a_param, struct, cart_coords, geom,
                    tilted_struct, theta_rad, written, downloaded, printed, solves >>

\* lines 112-123 and the assignment of line 134
DefineLatticeAndReturn ==
    /\ pc = "lattice"
    /\ tilted_struct' = FinalStruct(NewLattice(geom.L_planar, struct.lattice.b, geom.L_z),
                                    struct.species, rotated_coords)
    /\ theta_rad' = geom.theta
    /\ pc' = "write"
    /\ UNCHANGED << N, h_spacing, a_param, struct, cart_coords, geom, rotated_coords,
                    written, downloaded, printed, solves >>

\* lines 137-138
WriteOutput ==
    /\ pc = "write"
    /\ written' = tilted_struct
    /\ pc' = "report"
    /\ UNCHANGED << N, h_spacing, a_param, struct, cart_coords, geom, rotated_coords,
                    tilted_struct, theta_rad, downloaded, printed, solves >>

\* lines 140-143
PrintSuccess ==
    /\ pc = "report"
    /\ printed' = "SUCCESS"
    /\ pc' = "download"
    /\ UNCHANGED << N, h_spacing, a_param, struct, cart_coords, geom, rotated_coords,
                    tilted_struct, theta_rad, written, downloaded, solves >>

\* line 146
Download ==
    /\ pc = "download"
    /\ downloaded' = TRUE
    /\ pc' = "done"
    /\ UNCHANGED << N, h_spacing, a_param, struct, cart_coords, geom, rotated_coords,
                    tilted_struct, theta_rad, written, printed, solves >>

\* lines 138 and 146: the serializer or the download raises
OutputFails ==
    /\ pc \in {"write", "download"}
    /\ pc' = "except"
    /\ UNCHANGED << N, h_spacing, a_param, struct, cart_coords, geom, rotated_coords,
                    tilted_struct, theta_rad, written, downloaded, printed, solves >>

\* lines 148-149
PrintError ==
    /\ pc = "except"
    /\ printed' = "ERROR"
    /\ pc' = "done"
    /\ UNCHANGED << N, h_spacing, a_param, struct, cart_coords, geom, rotated_coords,
                    tilted_struct, theta_rad, written, downloaded, solves >>

Next ==
    \/ GetRectangular
    \/ MakeSupercell
    \/ CenterStrip
    \/ SolveGeometry
    \/ RigidRotation
    \/ DefineLatticeAndReturn
    \/ WriteOutput
    \/ PrintSuccess
    \/ Download
    \/ OutputFails
    \/ PrintError

Spec == Init /\ [][Next]_vars

\* ------------------------------------------------------------------------
\* Properties
\* ------------------------------------------------------------------------
\* the unit in the last place of v, and equality within k such units
UlpOf(v) ==
    IF Abs(v) < 2^Prec THEN 1
    ELSE 2^(CHOOSE k \in 1..30 : /\ Abs(v) \div 2^k < 2^Prec
                                 /\ Abs(v) \div 2^(k - 1) >= 2^Prec)
Max(x, y) == IF x > y THEN x ELSE y
Close(x, y, k) ==
    /\ ~IsNaN(x)
    /\ ~IsNaN(y)
    /\ Abs(x - y) <= k * UlpOf(Max(Abs(x), Abs(y)))

\* solve_box_geometry has returned a triple
Returned == geom # None /\ ~geom.raised
\* the sheet length the solver was called with
SheetLength == struct.lattice.a
\* struct is the replicated sheet
Replicated == pc \notin {"start", "supercell"}
Count(species, label) == Cardinality({i \in 1..Len(species) : species[i] = label})
Dist(u, v) ==
    FSqrt(FAdd(FAdd(FPow2(FSub(u[1], v[1])), FPow2(FSub(u[2], v[2]))),
               FPow2(FSub(u[3], v[3]))))
InUnitInterval(f) == FLe(0, f) /\ FLt(f, Unit)

\* C1: every triple the solver returns satisfies
\* planarLength^2 + perpendicularLength^2 = sheetLength^2 within 4 units in
\* the last place, and tiltAngle = arctan(perpendicularLength / planarLength).
C1_ClosureAndAngle ==
    Returned =>
        /\ Close(FAdd(FPow2(geom.L_planar), FPow2(geom.L_z)), FPow2(SheetLength), 4)
        /\ ~IsNaN(geom.theta)
        /\ geom.theta = FAtan(FDiv(geom.L_z, geom.L_planar))

\* C2: the solver raises exactly when sheetLength < 2*spacing, (10.0, 6.0)
\* raises, and every triple it returns, the boundary sheetLength = 2*spacing
\* included, is computed from a non-negative discriminant.
C2_RaisesExactlyBelowTwiceSpacing ==
    /\ solve_box_geometry(FromInt(10), FromInt(6)).raised
    /\ geom # None =>
          /\ geom.raised <=> SheetLength < 2 * h_spacing
          /\ ~geom.raised => FLe(0, geom.disc) /\ ~IsNaN(geom.L_planar)

\* C3: every returned tilt angle satisfies 0 < tiltAngle <= pi/4, and
\* 0 < perpendicularLength <= planarLength with equality only when
\* sheetLength = 2*spacing.
C3_TiltAngleRange ==
    Returned =>
        /\ FLt(0, geom.theta)
        /\ FLe(geom.theta, FAtan(FromInt(1)))
        /\ FLt(0, geom.L_z)
        /\ FLe(geom.L_z, geom.L_planar)
        /\ geom.L_z = geom.L_planar => SheetLength = 2 * h_spacing

\* C4: in the tilted cell create_tilted_cell returns, every atom's fractional
\* coordinate lies in [0, 1) on each of the three axes.
C4_FractionalInUnitCell ==
    tilted_struct # None =>
        \A i \in 1..Len(tilted_struct.frac_coords) :
            \A axis \in 1..3 : InUnitInterval(tilted_struct.frac_coords[i][axis])

\* C5: the replicated sheet has 6N atoms, 2N Mo and 4N S; centring, rotation
\* and the construction of the tilted cell keep the number of atoms, and the
\* i-th atom of the tilted cell carries the label of the i-th atom of the
\* replicated sheet.
C5_AtomsAndLabelsPreserved ==
    Replicated =>
        /\ Len(struct.species) = 6 * N
        /\ Len(struct.frac_coords) = 6 * N
        /\ Count(struct.species, "Mo") = 2 * N
        /\ Count(struct.species, "S") = 4 * N
        /\ cart_coords # << >> => Len(cart_coords) = 6 * N
        /\ rotated_coords # << >> => Len(rotated_coords) = 6 * N
        /\ tilted_struct # None =>
              /\ tilted_struct.species = struct.species
              /\ Len(tilted_struct.frac_coords) = 6 * N
C5_Witness ==
    /\ pc = "done"
    /\ tilted_struct # None
    /\ N = 3
    /\ Len(tilted_struct.species) = 18

\* C6: the returned box realises the target spacing: planarLength *
\* perpendicularLength = sheetLength * spacing, the rotated period vector
\* (sheetLength*cos(theta), 0, sheetLength*sin(theta)) is the box diagonal
\* (planarLength, 0, perpendicularLength), and the distance between the sheet
\* and its image, planarLength * perpendicularLength / sheetLength, is the
\* spacing; each within 4 units in the last place.
C6_TargetSpacingRealised ==
    Returned =>
        /\ Close(FMul(geom.L_planar, geom.L_z), FMul(SheetLength, h_spacing), 4)
        /\ Close(FMul(SheetLength, FCos(geom.theta)), geom.L_planar, 4)
        /\ Close(FMul(SheetLength, FSin(geom.theta)), geom.L_z, 4)
        /\ Close(FDiv(FMul(geom.L_planar, geom.L_z), SheetLength), h_spacing, 4)

\* C7: after the rotation step every atom's y is the one it had, and for
\* every pair of atoms the distance after the rotation equals the distance
\* before it, within 4 units in the last place of the sheet length.
C7_RotationRigid ==
    pc = "lattice" =>
        \A i \in 1..Len(cart_coords) :
            /\ rotated_coords[i][2] = cart_coords[i][2]
            /\ \A j \in 1..(i - 1) :
                  LET before == Dist(cart_coords[i], cart_coords[j])
                      after == Dist(rotated_coords[i], rotated_coords[j])
                  IN  /\ ~IsNaN(after)
                      /\ Abs(after - before) <= 4 * UlpOf(SheetLength)

\* C8: the steps happen in the order solve, rotate, wrap, serialize; the file
\* is written and the download triggered only after create_tilted_cell has
\* returned a tilted cell; when the solver raises (N*latticeConstant <
\* 2*spacing) no tilted cell is returned, nothing is rotated, written or
\* downloaded, the error is printed, and the solver is called once.
C8_OrderAndFailure ==
    /\ solves <= 1
    /\ rotated_coords # << >> => Returned
    /\ tilted_struct # None => Returned /\ rotated_coords # << >>
    /\ written # None => tilted_struct # None /\ written = tilted_struct
    /\ printed = "SUCCESS" => written # None
    /\ downloaded => written # None /\ printed = "SUCCESS"
    /\ (geom # None /\ FLt(FMulInt(N, a_param), FMulInt(2, h_spacing))) => geom.raised
    /\ (geom # None /\ geom.raised) =>
          /\ pc \in {"except", "done"}
          /\ rotated_coords = << >>
          /\ tilted_struct = None
          /\ theta_rad = None
          /\ written = None
          /\ ~downloaded
          /\ printed # "SUCCESS"
          /\ pc = "done" => printed = "ERROR"
C8_Witness ==
    /\ pc = "done"
    /\ geom # None
    /\ geom.raised
    /\ printed = "ERROR"
    /\ N = N_SUPERCELL

\* C9: every triple the solver returns has planarLength and
\* perpendicularLength real and strictly positive.
C9_LengthsPositive ==
    Returned => FLt(0, geom.L_planar) /\ FLt(0, geom.L_z)

\* C10: replication changes the length axis only (b stays latticeConstant *
\* sqrt(3), c stays the vacuum); the solver is called with sheetLength =
\* N*latticeConstant and returns for every N*latticeConstant >= 2*spacing;
\* the returned box is (planarLength, latticeConstant*sqrt(3),
\* perpendicularLength) with three angles of 90 degrees, and the returned
\* angle is the solver's tiltAngle.
C10_BoxFromSolver ==
    /\ Replicated =>
          /\ struct.lattice.a = FMulInt(N, a_param)
          /\ struct.lattice.b = FMul(a_param, FSqrt(FromInt(3)))
          /\ struct.lattice.c = Vacuum
    /\ geom # None =>
          /\ geom = solve_box_geometry(FMulInt(N, a_param), h_spacing)
          /\ FLe(FMulInt(2, h_spacing), FMulInt(N, a_param)) => ~geom.raised
    /\ tilted_struct # None =>
          /\ tilted_struct.lattice =
                [a |-> geom.L_planar, b |-> FMul(a_param, FSqrt(FromInt(3))),
                 c |-> geom.L_z, alpha |-> 90, beta |-> 90, gamma |-> 90]
          /\ theta_rad = geom.theta
C10_Witness ==
    /\ tilted_struct # None
    /\ N = N_SUPERCELL
    /\ h_spacing = H_SPACING
    /\ a_param = A_PARAM
    /\ ~IsNaN(theta_rad)
    /\ tilted_struct.lattice.a # tilted_struct.lattice.c
====
